---- MODULE Spec2Model ----
(***************************************************************************)
(* Model of cursor-wrapped: the one-shot pipeline                          *)
(*   parse_csv -> analyze_usage -> generate_summary -> display / JSON      *)
(* of cursor_wrapped_terminal.py (cursor_wrapped.py shares parse_csv,      *)
(* analyze_usage, format_number and generate_summary line for line).       *)
(*                                                                         *)
(* Representation.                                                         *)
(*  - A CSV cell is the sequence of its characters, so int() and float()   *)
(*    are modelled by scanning characters.  The alphabet of numeric cells  *)
(*    is the digits, "-", "+", "." and "x", and a Cost cell may also be    *)
(*    the text NaN; spellings outside that alphabet that Python also       *)
(*    accepts (blanks, "_", exponents, "nan", "inf") are not inputs.       *)
(*  - A Date cell is the record [quoted, body, zone]: the text             *)
(*    (")<body><zone>(");  body >= 0 is the ISO-8601 text of the instant   *)
(*    that many hours after 2025-01-01T00:00:00, body = -1 is text that    *)
(*    is not ISO-8601.  Every timestamp of the inputs carries the zone     *)
(*    marker "Z", as the exports do.                                       *)
(*  - A cost is a whole number of cents.                                   *)
(*  - A percentage is a whole number of tenths of a percent.               *)
(*  - A dict is the sequence of its items <<key, value>> in insertion      *)
(*    order, which is the iteration order of a Python dict.                *)
(***************************************************************************)
EXTENDS Integers, Sequences, FiniteSets

VARIABLES
    fileStatus,  \* what open(args.csv_file) meets: "ok", "missing", "unreadable"
    file,        \* the data rows of the CSV file, in file order
    jsonArg,     \* args.json: "" when the flag is absent, else the path
    pc,          \* position in main()
    events,      \* main's events
    stats,       \* main's stats
    summary,     \* main's summary
    displayed,   \* what display_summary has printed
    jsonFile,    \* content of the file at args.json
    stdout,      \* lines printed on the output stream
    stderr,      \* lines printed on the error stream
    exitCode     \* the status the process ends with: 0 unless sys.exit(1) or a traceback

vars == <<fileStatus, file, jsonArg, pc, events, stats, summary, displayed,
          jsonFile, stdout, stderr, exitCode>>

\* ------------------------------------------------------------------ bounds
MaxParseRows == 2
MaxFilterRows == 3
MaxTimeRows == 3
MaxModelRows == 7
MaxCacheRows == 3

\* ------------------------------------------------------- program constants
TopN == 5
HoursPerDay == 24

None == [none |-> TRUE]

\* ------------------------------------------------------------ sequences
RECURSIVE SumSeq(_)
SumSeq(s) == IF s = <<>> THEN 0 ELSE s[1] + SumSeq(Tail(s))

Take(s, n) == SubSeq(s, 1, IF Len(s) < n THEN Len(s) ELSE n)

\* ------------------------------------------------------------ cell parsing
Digits == {"0", "1", "2", "3", "4", "5", "6", "7", "8", "9"}

DigitVal(c) ==
    CASE c = "0" -> 0 [] c = "1" -> 1 [] c = "2" -> 2 [] c = "3" -> 3
      [] c = "4" -> 4 [] c = "5" -> 5 [] c = "6" -> 6 [] c = "7" -> 7
      [] c = "8" -> 8 [] c = "9" -> 9

IsDigits(s) == Len(s) > 0 /\ \A i \in 1..Len(s) : s[i] \in Digits

RECURSIVE DigitsValue(_)
DigitsValue(s) ==
    IF s = <<>> THEN 0
    ELSE 10 * DigitsValue(SubSeq(s, 1, Len(s) - 1)) + DigitVal(s[Len(s)])

Ok(v) == [ok |-> TRUE, val |-> v]
Raise == [ok |-> FALSE, val |-> 0]

\* int(text): an optional sign and at least one digit, else ValueError
int(s) ==
    IF IsDigits(s) THEN Ok(DigitsValue(s))
    ELSE IF Len(s) > 1 /\ s[1] = "-" /\ IsDigits(Tail(s)) THEN Ok(0 - DigitsValue(Tail(s)))
    ELSE IF Len(s) > 1 /\ s[1] = "+" /\ IsDigits(Tail(s)) THEN Ok(DigitsValue(Tail(s)))
    ELSE Raise

DotPositions(s) == {i \in 1..Len(s) : s[i] = "."}

\* float(text), in cents: digits with at most one "." and at least one digit,
\* else ValueError.  Digits past the second decimal are below one cent.
float(s) ==
    IF IsDigits(s) THEN Ok(100 * DigitsValue(s))
    ELSE IF Cardinality(DotPositions(s)) = 1
    THEN LET d == CHOOSE i \in DotPositions(s) : TRUE
             whole == SubSeq(s, 1, d - 1)
             frac == SubSeq(s, d + 1, Len(s))
         IN IF (whole = <<>> \/ IsDigits(whole)) /\ (frac = <<>> \/ IsDigits(frac))
               /\ Len(whole) + Len(frac) > 0
            THEN Ok(100 * DigitsValue(whole)
                    + (IF Len(frac) = 0 THEN 0
                       ELSE IF Len(frac) = 1 THEN 10 * DigitsValue(frac)
                       ELSE DigitsValue(SubSeq(frac, 1, 2))))
            ELSE Raise
    ELSE Raise

NaNText == <<"N", "a", "N">>

\* int(row[c]) if row[c] else 0
IntCell(s) == IF s # <<>> THEN int(s) ELSE Ok(0)

\* the cost coercion without its test for an empty cell
CostCell_NoEmptyTest(s) == IF s # NaNText THEN float(s) ELSE Ok(0)

\* float(row['Cost']) if row['Cost'] and row['Cost'] != 'NaN' else 0.0
CostCell(s) == IF s # <<>> /\ s # NaNText THEN float(s) ELSE Ok(0)

\* row['Date'].strip('"')
StripQuotes(d) == [d EXCEPT !.quoted = FALSE]

\* date_str.replace('Z', '+00:00')
ReplaceZ(d) == IF d.zone = "Z" THEN [d EXCEPT !.zone = "+00:00"] ELSE d

\* datetime.fromisoformat(text): the instant, in hours since the epoch
fromisoformat(d) ==
    IF ~d.quoted /\ d.body >= 0 /\ d.zone = "+00:00" THEN Ok(d.body) ELSE Raise

\* the body of parse_csv's loop: the event of one row, or None for a skipped row
ParseRow(row) ==
    LET date == fromisoformat(ReplaceZ(StripQuotes(row.Date)))
        input_cache == IntCell(row.InputCache)
        input_no_cache == IntCell(row.InputNoCache)
        cache_read == IntCell(row.CacheRead)
        output_tokens == IntCell(row.OutputTokens)
        total_tokens == IntCell(row.TotalTokens)
        cost == CostCell(row.Cost)
    IN IF ~date.ok THEN None
       ELSE IF ~(input_cache.ok /\ input_no_cache.ok /\ cache_read.ok
                 /\ output_tokens.ok /\ total_tokens.ok /\ cost.ok) THEN None
       ELSE [date |-> date.val,
             kind |-> row.Kind,
             model |-> row.Model,
             max_mode |-> row.MaxMode,
             input_cache |-> input_cache.val,
             input_no_cache |-> input_no_cache.val,
             cache_read |-> cache_read.val,
             output_tokens |-> output_tokens.val,
             total_tokens |-> total_tokens.val,
             cost |-> cost.val]

\* parse_csv leaving the loop at the first row it cannot parse
RECURSIVE parse_csv_StopAtBadRow(_)
parse_csv_StopAtBadRow(rows) ==
    IF rows = <<>> THEN <<>>
    ELSE LET e == ParseRow(rows[1])
         IN IF e = None THEN <<>>
            ELSE <<e>> \o parse_csv_StopAtBadRow(Tail(rows))

RECURSIVE parse_csv(_)
parse_csv(rows) ==
    IF rows = <<>> THEN <<>>
    ELSE LET e == ParseRow(rows[1])
         IN IF e = None THEN parse_csv(Tail(rows))
            ELSE <<e>> \o parse_csv(Tail(rows))

\* ------------------------------------------------------------------ dicts
RECURSIVE DictFind(_, _)
DictFind(d, k) ==
    IF d = <<>> THEN 0
    ELSE IF d[Len(d)][1] = k THEN Len(d)
    ELSE DictFind(SubSeq(d, 1, Len(d) - 1), k)

\* d[k] of a defaultdict(int)
DictGet(d, k) == IF DictFind(d, k) = 0 THEN 0 ELSE d[DictFind(d, k)][2]

\* d[k] = v in place of d[k] += v
DictAdd_Overwrite(d, k, v) ==
    LET i == DictFind(d, k)
    IN IF i = 0 THEN Append(d, <<k, v>>)
       ELSE [d EXCEPT ![i] = <<k, v>>]

\* d[k] += v of a defaultdict(int): a new key goes last
DictAdd(d, k, v) ==
    LET i == DictFind(d, k)
    IN IF i = 0 THEN Append(d, <<k, v>>)
       ELSE [d EXCEPT ![i] = <<k, d[i][2] + v>>]

\* ------------------------------------------------------------- timestamps
MonthLengths == <<31, 28, 31, 30, 31, 30, 31, 31, 30, 31, 30, 31>>
MonthKeys == <<"2025-01", "2025-02", "2025-03", "2025-04", "2025-05", "2025-06",
               "2025-07", "2025-08", "2025-09", "2025-10", "2025-11", "2025-12">>
WeekdayNames == <<"Wednesday", "Thursday", "Friday", "Saturday", "Sunday",
                  "Monday", "Tuesday">>

\* date.hour
HourOf(t) == t % HoursPerDay

\* date.date(), as the number of days since 2025-01-01
DateOf(t) == t \div HoursPerDay

RECURSIVE MonthIndex(_, _)
MonthIndex(day, m) ==
    IF day < MonthLengths[m] THEN m ELSE MonthIndex(day - MonthLengths[m], m + 1)

\* date.strftime('%Y-%m')
MonthOf(t) == MonthKeys[MonthIndex(DateOf(t), 1)]

\* date.strftime('%A'); 2025-01-01 is a Wednesday
WeekdayOf(t) == WeekdayNames[(DateOf(t) % 7) + 1]

\* ----------------------------------------------------------- analyze_usage
\* the filter without its test of the kind
IsValid_AnyKind(e) == e.total_tokens > 0

IsValid(e) == e.kind = "Included" /\ e.total_tokens > 0

valid_events(evs) == SelectSeq(evs, IsValid)

RECURSIVE MinSeq(_)
MinSeq(s) ==
    IF Len(s) = 1 THEN s[1]
    ELSE LET m == MinSeq(Tail(s)) IN IF m < s[1] THEN m ELSE s[1]

RECURSIVE MaxSeq(_)
MaxSeq(s) ==
    IF Len(s) = 1 THEN s[1]
    ELSE LET m == MaxSeq(Tail(s)) IN IF m > s[1] THEN m ELSE s[1]

Field(s, f) == [i \in 1..Len(s) |-> s[i][f]]

\* the stats dict before the loop
InitialStats(valid) ==
    [total_events |-> Len(valid),
     date_range |-> [start |-> MinSeq(Field(valid, "date")),
                     end |-> MaxSeq(Field(valid, "date"))],
     total_tokens |-> SumSeq(Field(valid, "total_tokens")),
     total_output_tokens |-> SumSeq(Field(valid, "output_tokens")),
     total_input_tokens |-> SumSeq(Field(valid, "input_cache"))
                            + SumSeq(Field(valid, "input_no_cache")),
     total_cache_read |-> SumSeq(Field(valid, "cache_read")),
     total_cost |-> SumSeq(Field(valid, "cost")),
     model_usage |-> <<>>,
     model_tokens |-> <<>>,
     model_cost |-> <<>>,
     hourly_usage |-> <<>>,
     daily_usage |-> <<>>,
     monthly_usage |-> <<>>,
     weekday_usage |-> <<>>,
     token_distribution |-> <<>>,
     cache_efficiency |-> <<>>]

\* the loop body with "if event['cache_read'] > 0" guarding the cache ratio
AnalyzeEvent_CacheReadTest(st, event) ==
    LET total_input == event.input_cache + event.input_no_cache + event.cache_read
    IN [st EXCEPT
          !.model_usage = DictAdd(@, event.model, 1),
          !.model_tokens = DictAdd(@, event.model, event.total_tokens),
          !.model_cost = DictAdd(@, event.model, event.cost),
          !.hourly_usage = DictAdd(@, HourOf(event.date), event.total_tokens),
          !.daily_usage = DictAdd(@, DateOf(event.date), event.total_tokens),
          !.monthly_usage = DictAdd(@, MonthOf(event.date), event.total_tokens),
          !.weekday_usage = DictAdd(@, WeekdayOf(event.date), event.total_tokens),
          !.cache_efficiency = IF event.cache_read > 0
                               THEN Append(@, <<event.cache_read, total_input>>)
                               ELSE @,
          !.token_distribution = Append(@, event.total_tokens)]

\* one iteration of "for event in valid_events"; a cache ratio is kept as
\* the pair <<cache_read, total_input>>
AnalyzeEvent(st, event) ==
    LET total_input == event.input_cache + event.input_no_cache + event.cache_read
    IN [st EXCEPT
          !.model_usage = DictAdd(@, event.model, 1),
          !.model_tokens = DictAdd(@, event.model, event.total_tokens),
          !.model_cost = DictAdd(@, event.model, event.cost),
          !.hourly_usage = DictAdd(@, HourOf(event.date), event.total_tokens),
          !.daily_usage = DictAdd(@, DateOf(event.date), event.total_tokens),
          !.monthly_usage = DictAdd(@, MonthOf(event.date), event.total_tokens),
          !.weekday_usage = DictAdd(@, WeekdayOf(event.date), event.total_tokens),
          !.cache_efficiency = IF total_input > 0
                               THEN Append(@, <<event.cache_read, total_input>>)
                               ELSE @,
          !.token_distribution = Append(@, event.total_tokens)]

RECURSIVE AnalyzeLoop(_, _)
AnalyzeLoop(st, valid) ==
    IF valid = <<>> THEN st
    ELSE AnalyzeLoop(AnalyzeEvent(st, valid[1]), Tail(valid))

\* defined when valid_events(evs) is not empty; min() and max() raise otherwise
analyze_usage(evs) == AnalyzeLoop(InitialStats(valid_events(evs)), valid_events(evs))

\* -------------------------------------------------------- generate_summary
\* a descending sort that puts an item before the items equal to it
InsertDesc_BeforeEqual(sortedItems, item) ==
    LET p == Cardinality({i \in 1..Len(sortedItems) : sortedItems[i][2] > item[2]})
    IN SubSeq(sortedItems, 1, p) \o <<item>> \o SubSeq(sortedItems, p + 1, Len(sortedItems))

\* where a stable descending sort puts item into an already sorted list
InsertDesc(sortedItems, item) ==
    LET p == Cardinality({i \in 1..Len(sortedItems) : sortedItems[i][2] >= item[2]})
    IN SubSeq(sortedItems, 1, p) \o <<item>> \o SubSeq(sortedItems, p + 1, Len(sortedItems))

\* sorted(items, key=lambda x: x[1], reverse=True)
RECURSIVE sorted(_)
sorted(items) ==
    IF items = <<>> THEN <<>>
    ELSE InsertDesc(sorted(SubSeq(items, 1, Len(items) - 1)), items[Len(items)])

\* a maximum that keeps the last of the largest items
RECURSIVE max_LastWins(_)
max_LastWins(items) ==
    IF Len(items) = 1 THEN items[1]
    ELSE LET best == max_LastWins(SubSeq(items, 1, Len(items) - 1))
         IN IF items[Len(items)][2] >= best[2] THEN items[Len(items)] ELSE best

\* max(items, key=lambda x: x[1]): the first item that no later one exceeds
RECURSIVE max(_)
max(items) ==
    IF Len(items) = 1 THEN items[1]
    ELSE LET best == max(SubSeq(items, 1, Len(items) - 1))
         IN IF items[Len(items)][2] > best[2] THEN items[Len(items)] ELSE best

\* rounding that drops the remainder
RoundHalfEven_Truncate(num, den) == num \div den

\* round(num / den, 0) of a non-negative ratio, ties to the even neighbour
RoundHalfEven(num, den) ==
    LET q == num \div den
        r == num % den
    IN IF 2 * r < den THEN q
       ELSE IF 2 * r > den THEN q + 1
       ELSE IF q % 2 = 0 THEN q ELSE q + 1

\* round((tokens / total) * 100, 1) if total > 0 else 0, in tenths of a percent
percentage(tokens, total) ==
    IF total > 0 THEN RoundHalfEven(1000 * tokens, total) ELSE 0

RECURSIVE gcd(_, _)
gcd(a, b) == IF b = 0 THEN a ELSE gcd(b, a % b)

\* the fraction n / d in lowest terms, as <<numerator, denominator>>
Fraction(n, d) == <<n \div gcd(n, d), d \div gcd(n, d)>>

\* the exact sum of the ratios
RECURSIVE SumRatios(_)
SumRatios(ratios) ==
    IF ratios = <<>> THEN <<0, 1>>
    ELSE LET s == SumRatios(Tail(ratios))
             r == ratios[1]
         IN Fraction(r[1] * s[2] + s[1] * r[2], r[2] * s[2])

\* statistics.mean(ratios) of a non-empty list, exact
mean(ratios) == Fraction(SumRatios(ratios)[1], SumRatios(ratios)[2] * Len(ratios))

\* round(avg_cache_efficiency, 1), in tenths of a percent, where
\* avg_cache_efficiency is mean(...) * 100 if the list is not empty else 0
efficiency_percent(st) ==
    IF st.cache_efficiency # <<>>
    THEN RoundHalfEven(1000 * mean(st.cache_efficiency)[1], mean(st.cache_efficiency)[2])
    ELSE 0

\* the number of calendar dates from the first to the last
days_active_CalendarDates(date_range) == DateOf(date_range.end) - DateOf(date_range.start) + 1

\* (date_range['end'] - date_range['start']).days + 1
days_active(date_range) == ((date_range.end - date_range.start) \div HoursPerDay) + 1

\* ----------------------------------------------------------- format_number
DigitChars == <<"0", "1", "2", "3", "4", "5", "6", "7", "8", "9">>

\* str(n) of a non-negative int
RECURSIVE str(_)
str(n) == IF n < 10 THEN <<DigitChars[n + 1]>> ELSE str(n \div 10) \o <<DigitChars[(n % 10) + 1]>>

RECURSIVE BitLength(_)
BitLength(q) == IF q = 0 THEN 0 ELSE 1 + BitLength(q \div 2)

\* The double that num / unit yields is q + r/unit rounded to 53 significant
\* bits, ties to even.  FloatError is the sign of (that double) - (q + r/unit):
\* after the k more bits the double keeps, rem/unit is what is left and last
\* is the lowest bit kept.
RECURSIVE FloatError(_, _, _, _)
FloatError(k, last, rem, unit) ==
    IF k > 0 THEN FloatError(k - 1, (2 * rem) \div unit, (2 * rem) % unit, unit)
    ELSE IF rem = 0 THEN 0
    ELSE IF 2 * rem < unit THEN -1
    ELSE IF 2 * rem > unit THEN 1
    ELSE IF last = 0 THEN -1 ELSE 1

\* the hundredths that the format spec .2f prints for the double num / unit,
\* num >= unit: the nearest hundredth of the double, ties to even
Hundredths(num, unit) ==
    LET q == num \div unit
        r == num % unit
        cent == unit \div 100
        below == 100 * q + (r \div cent)
        left == r % cent
        err == FloatError(53 - BitLength(q), q % 2, r, unit)
    IN IF 2 * left < cent THEN below
       ELSE IF 2 * left > cent THEN below + 1
       ELSE IF err < 0 THEN below
       ELSE IF err > 0 THEN below + 1
       ELSE IF below % 2 = 0 THEN below ELSE below + 1

\* f"{num / unit:.2f}{suffix}"
Scaled(num, unit, suffix) ==
    LET h == Hundredths(num, unit)
    IN str(h \div 100) \o <<".", DigitChars[((h % 100) \div 10) + 1], DigitChars[(h % 10) + 1]>>
       \o <<suffix>>

\* format_number with "num > limit" in place of "num >= limit"
format_number_StrictLimits(num) ==
    IF num > 1000000000 THEN Scaled(num, 1000000000, "B")
    ELSE IF num > 1000000 THEN Scaled(num, 1000000, "M")
    ELSE IF num > 1000 THEN Scaled(num, 1000, "K")
    ELSE str(num)

\* format_number(num) of a non-negative int
format_number(num) ==
    IF num >= 1000000000 THEN Scaled(num, 1000000000, "B")
    ELSE IF num >= 1000000 THEN Scaled(num, 1000000, "M")
    ELSE IF num >= 1000 THEN Scaled(num, 1000, "K")
    ELSE str(num)

top_models_by_usage(st) == Take(sorted(st.model_usage), TopN)

top_models_by_tokens(st) == Take(sorted(st.model_tokens), TopN)

\* d.keys(), in insertion order
DictKeys(d) == [i \in 1..Len(d) |-> d[i][1]]

\* a descending sort of keys that puts a key before the keys equal to it
InsertKeyDesc_BeforeEqual(sortedKeys, key, d) ==
    LET p == Cardinality({i \in 1..Len(sortedKeys) :
                             DictGet(d, sortedKeys[i]) > DictGet(d, key)})
    IN SubSeq(sortedKeys, 1, p) \o <<key>> \o SubSeq(sortedKeys, p + 1, Len(sortedKeys))

\* where a stable descending sort by d[key] puts key into an already sorted list
InsertKeyDesc(sortedKeys, key, d) ==
    LET p == Cardinality({i \in 1..Len(sortedKeys) :
                             DictGet(d, sortedKeys[i]) >= DictGet(d, key)})
    IN SubSeq(sortedKeys, 1, p) \o <<key>> \o SubSeq(sortedKeys, p + 1, Len(sortedKeys))

\* sorted(keys, key=lambda m: d[m], reverse=True)
RECURSIVE sorted_keys(_, _)
sorted_keys(keys, d) ==
    IF keys = <<>> THEN <<>>
    ELSE InsertKeyDesc(sorted_keys(SubSeq(keys, 1, Len(keys) - 1), d), keys[Len(keys)], d)

model_breakdown(st) ==
    LET order == sorted_keys(DictKeys(st.model_tokens), st.model_tokens)
    IN [i \in 1..Len(order) |->
          [model |-> order[i],
           usage_count |-> DictGet(st.model_usage, order[i]),
           total_tokens |-> DictGet(st.model_tokens, order[i]),
           total_tokens_formatted |-> format_number(DictGet(st.model_tokens, order[i])),
           cost |-> DictGet(st.model_cost, order[i]),
           percentage |-> percentage(DictGet(st.model_tokens, order[i]),
                                     st.total_tokens)]]

generate_summary(st) ==
    [year |-> 2025,
     days_active |-> days_active(st.date_range),
     date_range |-> [start |-> DateOf(st.date_range.start),
                     end |-> DateOf(st.date_range.end)],
     totals |-> [events |-> st.total_events,
                 tokens |-> st.total_tokens,
                 tokens_formatted |-> format_number(st.total_tokens),
                 output_tokens |-> st.total_output_tokens,
                 output_tokens_formatted |-> format_number(st.total_output_tokens),
                 input_tokens |-> st.total_input_tokens,
                 input_tokens_formatted |-> format_number(st.total_input_tokens),
                 cache_read |-> st.total_cache_read,
                 cache_read_formatted |-> format_number(st.total_cache_read),
                 cost |-> st.total_cost,
                 tokens_per_day |-> IF days_active(st.date_range) > 0
                                    THEN st.total_tokens \div days_active(st.date_range)
                                    ELSE 0],
     top_models |-> [by_usage |-> [i \in 1..Len(top_models_by_usage(st)) |->
                                     [model |-> top_models_by_usage(st)[i][1],
                                      count |-> top_models_by_usage(st)[i][2]]],
                     by_tokens |-> [i \in 1..Len(top_models_by_tokens(st)) |->
                                      [model |-> top_models_by_tokens(st)[i][1],
                                       tokens |-> top_models_by_tokens(st)[i][2],
                                       tokens_formatted |->
                                          format_number(top_models_by_tokens(st)[i][2])]]],
     peak_times |-> [hour |-> [hour |-> max(st.hourly_usage)[1],
                               tokens |-> max(st.hourly_usage)[2],
                               tokens_formatted |-> format_number(max(st.hourly_usage)[2])],
                     day |-> [date |-> max(st.daily_usage)[1],
                              tokens |-> max(st.daily_usage)[2],
                              tokens_formatted |-> format_number(max(st.daily_usage)[2])],
                     month |-> [month |-> max(st.monthly_usage)[1],
                                tokens |-> max(st.monthly_usage)[2],
                                tokens_formatted |-> format_number(max(st.monthly_usage)[2])],
                     weekday |-> [day |-> max(st.weekday_usage)[1],
                                  tokens |-> max(st.weekday_usage)[2],
                                  tokens_formatted |-> format_number(max(st.weekday_usage)[2])]],
     token_stats |-> [max |-> MaxSeq(st.token_distribution),
                      max_formatted |-> format_number(MaxSeq(st.token_distribution))],
     cache_stats |-> [total_cache_read |-> st.total_cache_read,
                      total_cache_read_formatted |-> format_number(st.total_cache_read),
                      efficiency_percent |-> efficiency_percent(st)],
     model_breakdown |-> model_breakdown(st)]

\* ------------------------------------------------------------------ inputs
Stamp(t) == [quoted |-> FALSE, body |-> t, zone |-> "Z"]
QuotedStamp(t) == [quoted |-> TRUE, body |-> t, zone |-> "Z"]
NotADate == [quoted |-> FALSE, body |-> -1, zone |-> ""]

\* 2025-01-31T23:00Z, 2025-02-01T01:00Z, 2025-02-07T23:00Z, 2025-02-08T01:00Z
Jan31Late == 30 * HoursPerDay + 23
Feb01Early == 31 * HoursPerDay + 1
Feb07Late == 37 * HoursPerDay + 23
Feb08Early == 38 * HoursPerDay + 1

BaseRow ==
    [Date |-> Stamp(Jan31Late), Kind |-> "Included", Model |-> "m1", MaxMode |-> "No",
     InputCache |-> <<"3">>, InputNoCache |-> <<"2">>, CacheRead |-> <<"5">>,
     OutputTokens |-> <<"1">>, TotalTokens |-> <<"7">>, Cost |-> <<"1", ".", "5", "0">>]

\* rows that differ from a well-formed row in one cell
ParseRows ==
    {BaseRow}
    \cup {[BaseRow EXCEPT !.Date = d] : d \in {QuotedStamp(Feb01Early), NotADate}}
    \cup {[BaseRow EXCEPT !.TotalTokens = c] :
            c \in {<<"1", "2">>, <<"x">>, <<"-", "4">>, <<>>}}
    \cup {[BaseRow EXCEPT !.InputCache = <<"x">>],
          [BaseRow EXCEPT !.InputNoCache = <<"-">>],
          [BaseRow EXCEPT !.CacheRead = <<"1", ".", "5">>],
          [BaseRow EXCEPT !.OutputTokens = <<"+">>]}
    \cup {[BaseRow EXCEPT !.Cost = c] : c \in {<<"x">>, NaNText, <<>>}}

\* rows that differ in what the filter and the cost coercion look at
FilterRows ==
    {[BaseRow EXCEPT !.Kind = kt[1], !.TotalTokens = kt[2], !.Cost = c] :
        kt \in {<<"Included", <<"1", "0", "0">>>>, <<"Included", <<"7">>>>,
                <<"Included", <<"0">>>>, <<"Errored", <<"1", "0", "0">>>>},
        c \in {<<>>, NaNText, <<"1", ".", "5", "0">>}}

\* rows that differ in their timestamp and their tokens
TimeRows ==
    {[BaseRow EXCEPT !.Date = Stamp(t), !.TotalTokens = c] :
        t \in {Jan31Late, Feb01Early, Feb07Late, Feb08Early}, c \in {<<"1">>, <<"2">>}}
    \cup {[BaseRow EXCEPT !.Kind = "Errored", !.TotalTokens = <<"2">>]}

ModelNames == <<"m1", "m2", "m3", "m4", "m5", "m6", "m7", "m8", "m9">>

\* the Total Tokens cell of the rows of each model: m2 has the large requests
ModelTokens == <<<<"1">>, <<"1", "0">>, <<"1">>, <<"1">>, <<"1">>, <<"1">>, <<"1">>,
                 <<"1">>, <<"1">>>>

\* the ways n rows can share models: the k-th new model has number k
RECURSIVE ModelShapes(_)
ModelShapes(n) ==
    IF n = 0 THEN {<<>>}
    ELSE UNION {{Append(sh, m) : m \in 1..(Cardinality({sh[i] : i \in 1..Len(sh)}) + 1)} :
                sh \in ModelShapes(n - 1)}

\* the file whose rows have the models of shape sh
ModelFile(sh) ==
    [i \in 1..Len(sh) |->
       [BaseRow EXCEPT !.Model = ModelNames[sh[i]], !.TotalTokens = ModelTokens[sh[i]]]]

\* Output Tokens cells around the limits of format_number; they stay below 2^31
FormatCells ==
    {<<"9", "9", "9">>,
     <<"1", "0", "0", "0">>,
     <<"1", "0", "0", "5">>,
     <<"1", "0", "1", "5">>,
     <<"1", "1", "2", "5">>,
     <<"1", "3", "7", "5">>,
     <<"1", "5", "0", "0">>,
     <<"9", "9", "9", "9", "9", "4">>,
     <<"9", "9", "9", "9", "9", "5">>,
     <<"9", "9", "9", "9", "9", "9">>,
     <<"1", "0", "0", "0", "0", "0", "0">>,
     <<"1", "0", "0", "5", "0", "0", "0">>,
     <<"2", "5", "0", "0", "0", "0", "0">>,
     <<"9", "9", "9", "9", "9", "9", "9", "9", "9">>,
     <<"1", "0", "0", "0", "0", "0", "0", "0", "0", "0">>,
     <<"1", "0", "1", "5", "0", "0", "0", "0", "0", "0">>,
     <<"1", "2", "0", "0", "0", "0", "0", "0", "0", "0">>,
     <<"2", "0", "0", "0", "0", "0", "0", "0", "0", "0">>}

\* rows that differ in their input token counts: none, cache reads only,
\* fresh input only, both, and a row that does not count
CacheRows ==
    {[BaseRow EXCEPT !.InputCache = t[1], !.InputNoCache = t[2], !.CacheRead = t[3]] :
        t \in {<<<<"0">>, <<"0">>, <<"0">>>>, <<<<"0">>, <<>>, <<"5">>>>,
               <<<<"3">>, <<"0">>, <<"0">>>>, <<<<"2">>, <<"0">>, <<"1">>>>}}
    \cup {[BaseRow EXCEPT !.Kind = "Errored"]}

\* the CSV files of the inputs: one of six families of rows
IsInputFile(f) ==
    \/ \E n \in 0..MaxParseRows : f \in [1..n -> ParseRows]
    \/ \E n \in 0..MaxFilterRows : f \in [1..n -> FilterRows]
    \/ \E n \in 0..MaxTimeRows : f \in [1..n -> TimeRows]
    \/ \E n \in 0..MaxModelRows :
         \E sh \in ModelShapes(n) : f = ModelFile(sh)
    \/ \E c \in FormatCells : f = <<[BaseRow EXCEPT !.OutputTokens = c]>>
    \/ \E n \in 0..MaxCacheRows : f \in [1..n -> CacheRows]

\* -------------------------------------------------------------------- main
Init ==
    /\ fileStatus \in {"ok", "missing", "unreadable"}
    /\ IF fileStatus = "ok" THEN IsInputFile(file) ELSE file = <<>>
    /\ jsonArg \in {"", "summary.json"}
    /\ pc = "parse"
    /\ events = <<>>
    /\ stats = None
    /\ summary = None
    /\ displayed = None
    /\ jsonFile = None
    /\ stdout = <<"Analyzing Cursor usage data">>
    /\ stderr = <<>>
    /\ exitCode = 0

Exit(code) == pc' = "exit" /\ exitCode' = code

\* the handler of FileNotFoundError returning instead of calling sys.exit(1)
ParseFileNotFound_ExitZero ==
    /\ pc = "parse" /\ fileStatus = "missing"
    /\ stderr' = Append(stderr, "Error: File not found")
    /\ Exit(0)
    /\ UNCHANGED <<fileStatus, file, jsonArg, events, stats, summary, displayed,
                   jsonFile, stdout>>

\* try: events = parse_csv(args.csv_file) ... except FileNotFoundError
ParseFileNotFound ==
    /\ pc = "parse" /\ fileStatus = "missing"
    /\ stderr' = Append(stderr, "Error: File not found")
    /\ Exit(1)
    /\ UNCHANGED <<fileStatus, file, jsonArg, events, stats, summary, displayed,
                   jsonFile, stdout>>

\* try: events = parse_csv(args.csv_file) ... except Exception
ParseReadError ==
    /\ pc = "parse" /\ fileStatus = "unreadable"
    /\ stderr' = Append(stderr, "Error reading CSV file")
    /\ Exit(1)
    /\ UNCHANGED <<fileStatus, file, jsonArg, events, stats, summary, displayed,
                   jsonFile, stdout>>

\* events = parse_csv(args.csv_file), then "if not events"
ParseOk ==
    /\ pc = "parse" /\ fileStatus = "ok"
    /\ events' = parse_csv(file)
    /\ stdout' = Append(stdout, "Loaded events")
    /\ IF events' = <<>>
       THEN /\ stderr' = Append(stderr, "Error: No valid events found in CSV file")
            /\ Exit(1)
       ELSE /\ pc' = "analyze"
            /\ UNCHANGED <<stderr, exitCode>>
    /\ UNCHANGED <<fileStatus, file, jsonArg, stats, summary, displayed, jsonFile>>

\* stats = analyze_usage(events); min() of an empty sequence raises ValueError,
\* nothing catches it, the interpreter prints the traceback and exits with 1
Analyze ==
    /\ pc = "analyze"
    /\ IF valid_events(events) = <<>>
       THEN /\ stderr' = Append(stderr, "ValueError: min() arg is an empty sequence")
            /\ Exit(1)
            /\ UNCHANGED stats
       ELSE /\ stats' = analyze_usage(events)
            /\ pc' = "summarize"
            /\ UNCHANGED <<stderr, exitCode>>
    /\ UNCHANGED <<fileStatus, file, jsonArg, events, summary, displayed, jsonFile, stdout>>

\* summary = generate_summary(stats)
Summarize ==
    /\ pc = "summarize"
    /\ summary' = generate_summary(stats)
    /\ pc' = "display"
    /\ UNCHANGED <<fileStatus, file, jsonArg, events, stats, displayed, jsonFile,
                   stdout, stderr, exitCode>>

\* display_summary(summary)
Display ==
    /\ pc = "display"
    /\ displayed' = summary
    /\ stdout' = Append(stdout, "CURSOR WRAPPED 2025")
    /\ pc' = "save"
    /\ UNCHANGED <<fileStatus, file, jsonArg, events, stats, summary, jsonFile,
                   stderr, exitCode>>

\* "if args.json" is false: main returns
NoJson ==
    /\ pc = "save" /\ jsonArg = ""
    /\ Exit(0)
    /\ UNCHANGED <<fileStatus, file, jsonArg, events, stats, summary, displayed,
                   jsonFile, stdout, stderr>>

\* json.dump(summary, f) succeeds
SaveJson ==
    /\ pc = "save" /\ jsonArg # ""
    /\ jsonFile' = summary
    /\ stdout' = Append(stdout, "Summary saved")
    /\ Exit(0)
    /\ UNCHANGED <<fileStatus, file, jsonArg, events, stats, summary, displayed, stderr>>

\* the handler of a failed write ending the run with sys.exit(1)
SaveJsonFails_Fatal ==
    /\ pc = "save" /\ jsonArg # ""
    /\ stderr' = Append(stderr, "Warning: Could not save JSON file")
    /\ Exit(1)
    /\ UNCHANGED <<fileStatus, file, jsonArg, events, stats, summary, displayed,
                   jsonFile, stdout>>

\* open(args.json, 'w') or json.dump raises: except Exception prints a warning
SaveJsonFails ==
    /\ pc = "save" /\ jsonArg # ""
    /\ stderr' = Append(stderr, "Warning: Could not save JSON file")
    /\ Exit(0)
    /\ UNCHANGED <<fileStatus, file, jsonArg, events, stats, summary, displayed,
                   jsonFile, stdout>>

Next ==
    \/ ParseFileNotFound
    \/ ParseReadError
    \/ ParseOk
    \/ Analyze
    \/ Summarize
    \/ Display
    \/ NoJson
    \/ SaveJson
    \/ SaveJsonFails

Spec == Init /\ [][Next]_vars

TypeOK ==
    /\ pc \in {"parse", "analyze", "summarize", "display", "save", "exit"}
    /\ exitCode \in {0, 1}
    /\ pc # "exit" => exitCode = 0

\* ---------------------------------------------------------------- oracles
\* what the cells of the inputs mean, written down cell by cell
IntOracle ==
    {<<<<>>, 0>>, <<<<"0">>, 0>>, <<<<"1">>, 1>>, <<<<"2">>, 2>>, <<<<"3">>, 3>>,
     <<<<"5">>, 5>>, <<<<"7">>, 7>>, <<<<"1", "0">>, 10>>, <<<<"1", "2">>, 12>>,
     <<<<"1", "0", "0">>, 100>>, <<<<"-", "4">>, -4>>,
     <<<<"9", "9", "9">>, 999>>,
     <<<<"1", "0", "0", "0">>, 1000>>,
     <<<<"1", "0", "0", "5">>, 1005>>,
     <<<<"1", "0", "1", "5">>, 1015>>,
     <<<<"1", "1", "2", "5">>, 1125>>,
     <<<<"1", "3", "7", "5">>, 1375>>,
     <<<<"1", "5", "0", "0">>, 1500>>,
     <<<<"9", "9", "9", "9", "9", "4">>, 999994>>,
     <<<<"9", "9", "9", "9", "9", "5">>, 999995>>,
     <<<<"9", "9", "9", "9", "9", "9">>, 999999>>,
     <<<<"1", "0", "0", "0", "0", "0", "0">>, 1000000>>,
     <<<<"1", "0", "0", "5", "0", "0", "0">>, 1005000>>,
     <<<<"2", "5", "0", "0", "0", "0", "0">>, 2500000>>,
     <<<<"9", "9", "9", "9", "9", "9", "9", "9", "9">>, 999999999>>,
     <<<<"1", "0", "0", "0", "0", "0", "0", "0", "0", "0">>, 1000000000>>,
     <<<<"1", "0", "1", "5", "0", "0", "0", "0", "0", "0">>, 1015000000>>,
     <<<<"1", "2", "0", "0", "0", "0", "0", "0", "0", "0">>, 1200000000>>,
     <<<<"2", "0", "0", "0", "0", "0", "0", "0", "0", "0">>, 2000000000>>}

CostOracle == {<<<<>>, 0>>, <<NaNText, 0>>, <<<<"1", ".", "5", "0">>, 150>>}

Known(oracle, cell) == \E p \in oracle : p[1] = cell
Meaning(oracle, cell) == (CHOOSE p \in oracle : p[1] = cell)[2]

RowParses(r) ==
    /\ r.Date.body >= 0
    /\ \A c \in {r.InputCache, r.InputNoCache, r.CacheRead, r.OutputTokens, r.TotalTokens} :
          Known(IntOracle, c)
    /\ Known(CostOracle, r.Cost)

ExpectedEvent(r) ==
    [date |-> r.Date.body, kind |-> r.Kind, model |-> r.Model, max_mode |-> r.MaxMode,
     input_cache |-> Meaning(IntOracle, r.InputCache),
     input_no_cache |-> Meaning(IntOracle, r.InputNoCache),
     cache_read |-> Meaning(IntOracle, r.CacheRead),
     output_tokens |-> Meaning(IntOracle, r.OutputTokens),
     total_tokens |-> Meaning(IntOracle, r.TotalTokens),
     cost |-> Meaning(CostOracle, r.Cost)]

\* the positions of the events that count
ValidIdx(evs) == {i \in 1..Len(evs) : evs[i].kind = "Included" /\ evs[i].total_tokens > 0}

RECURSIVE TokensOver(_, _)
TokensOver(evs, I) ==
    IF I = {} THEN 0
    ELSE LET i == CHOOSE j \in I : TRUE
         IN evs[i].total_tokens + TokensOver(evs, I \ {i})

Abs(x) == IF x < 0 THEN 0 - x ELSE x

\* generate_summary has just returned; the summary is not assigned again
SummaryBuilt == pc = "display"

\* ------------------------------------------------------------------ claims
\* C1: once a summary exists, totals.tokens is the sum of total_tokens and
\* totals.events the number of the events with kind 'Included' and
\* total_tokens > 0; no other event contributes.
C1_TotalsOverValidEvents ==
    SummaryBuilt =>
        /\ summary.totals.tokens = TokensOver(events, ValidIdx(events))
        /\ summary.totals.events = Cardinality(ValidIdx(events))

C1_Witness ==
    /\ summary # None
    /\ ValidIdx(events) # {}
    /\ \E i \in 1..Len(events) : events[i].kind # "Included"
    /\ \E i \in 1..Len(events) : events[i].total_tokens <= 0

\* C2: a run whose file parses to events none of which passes the filter ends
\* with the 'no valid events' message alone on the error stream, a non-zero
\* exit and no summary built, displayed or written.
C2_NoValidEventsIsReported ==
    (pc = "exit" /\ events # <<>> /\ ValidIdx(events) = {}) =>
        /\ stderr = <<"Error: No valid events found in CSV file">>
        /\ exitCode # 0
        /\ summary = None /\ displayed = None /\ jsonFile = None

\* the sum of the percentage fields, in tenths of a percent
PercentageSum(s) == SumSeq(Field(s.model_breakdown, "percentage"))

\* C3 as stated: the percentages of model_breakdown sum to 100.0 +- 0.1.
C3_PercentagesWithinOneTenth ==
    SummaryBuilt => Abs(PercentageSum(summary) - 1000) <= 1

\* C3 as amended: the percentages of the n entries of model_breakdown sum to
\* 100.0 +- n * 0.05, which is +- 0.1 when n <= 3.
C3_PercentagesWithinHalfTenthEach ==
    SummaryBuilt =>
        /\ 2 * Abs(PercentageSum(summary) - 1000) <= Len(summary.model_breakdown)
        /\ Len(summary.model_breakdown) <= 3 => Abs(PercentageSum(summary) - 1000) <= 1

C3_Witness ==
    /\ summary # None
    /\ Len(summary.model_breakdown) >= 5
    /\ Abs(PercentageSum(summary) - 1000) = 2

\* the positions of the rows that parse
GoodIdx == {i \in 1..Len(file) : RowParses(file[i])}

\* C4: parse_csv returns the events of exactly the rows whose timestamp and
\* six numeric cells parse, whole and in file order, and reading the rows
\* reports no error.
C4_ParseKeepsExactlyGoodRows ==
    (fileStatus = "ok" /\ pc # "parse") =>
        /\ Len(events) = Cardinality(GoodIdx)
        /\ \A i \in GoodIdx :
              events[Cardinality({j \in GoodIdx : j <= i})] = ExpectedEvent(file[i])
        /\ \A k \in 1..Len(stderr) : stderr[k] # "Error reading CSV file"

C4_Witness ==
    /\ fileStatus = "ok" /\ pc # "parse"
    /\ \E i, j \in 1..Len(file) :
          /\ i < j
          /\ ~Known(IntOracle, file[i].TotalTokens)
          /\ RowParses(file[j]) /\ file[j].Date.quoted
    /\ Len(events) = 1

ValidStamps == {events[i].date : i \in ValidIdx(events)}
Earliest == CHOOSE t \in ValidStamps : \A u \in ValidStamps : t <= u
Latest == CHOOSE t \in ValidStamps : \A u \in ValidStamps : t >= u

\* the number of whole days in h hours
WholeDays(h) == CHOOSE d \in 0..h : d * 24 <= h /\ h < (d + 1) * 24

SingleRowScenario ==
    file = <<[BaseRow EXCEPT !.Kind = "Included", !.TotalTokens = <<"1", "0", "0">>,
                             !.Cost = <<"1", ".", "5", "0">>]>>

\* C5: days_active is the number of whole days between the earliest and the
\* latest valid event plus 1, and at least 1; the one-row file (Included,
\* 100 tokens) gives days_active 1, one event and 100 tokens.
C5_DaysActive ==
    SummaryBuilt =>
        /\ summary.days_active = WholeDays(Latest - Earliest) + 1
        /\ summary.days_active >= 1
        /\ SingleRowScenario =>
              /\ summary.days_active = 1
              /\ summary.totals.events = 1
              /\ summary.totals.tokens = 100

C5_Witness ==
    /\ summary # None
    /\ summary.days_active = 1
    /\ DateOf(Latest) # DateOf(Earliest)

Lines(stream) == {stream[i] : i \in 1..Len(stream)}

\* C6: a missing or unreadable input file ends the run with a message on the
\* error stream and a non-zero exit before anything is aggregated, displayed
\* or written; a run that displays its summary ends with exit status 0.
C6_UnreadableInputIsFatal ==
    /\ fileStatus # "ok" =>
          /\ stats = None /\ summary = None /\ displayed = None /\ jsonFile = None
          /\ pc = "exit" => (exitCode # 0 /\ stderr # <<>>)
    /\ (pc = "exit" /\ displayed # None) => exitCode = 0

C6_Witness == pc = "exit" /\ fileStatus = "missing" /\ jsonArg # ""

\* C7: a failed write of the JSON file is warned about only after the summary
\* has been displayed, leaves the summary as it was and the exit status 0;
\* without --json nothing is written.
C7_JsonFailureIsAWarning ==
    /\ []("Warning: Could not save JSON file" \in Lines(stderr) =>
            /\ displayed # None /\ displayed = summary
            /\ pc = "exit" /\ exitCode = 0)
    /\ [](jsonArg = "" => jsonFile = None)
    /\ [][summary # None => summary' = summary]_vars

C7_Witness ==
    /\ "Warning: Could not save JSON file" \in Lines(stderr)
    /\ pc = "exit" /\ jsonFile = None /\ displayed # None

RECURSIVE SumFn(_)
SumFn(f) ==
    IF DOMAIN f = {} THEN 0
    ELSE LET i == CHOOSE j \in DOMAIN f : TRUE
         IN f[i] + SumFn([j \in DOMAIN f \ {i} |-> f[j]])

\* the keys of a time grouping, the tokens of a key and the first valid event of a key
GroupKeys(K(_)) == {K(events[i].date) : i \in ValidIdx(events)}
GroupIdx(K(_), k) == {i \in ValidIdx(events) : K(events[i].date) = k}
GroupSum(K(_), k) == TokensOver(events, GroupIdx(K, k))
FirstAt(K(_), k) == CHOOSE i \in GroupIdx(K, k) : \A j \in GroupIdx(K, k) : i <= j

IsPeak(K(_), key, tokens) ==
    /\ key \in GroupKeys(K)
    /\ tokens = GroupSum(K, key)
    /\ \A k \in GroupKeys(K) :
          /\ GroupSum(K, k) <= tokens
          /\ GroupSum(K, k) = tokens => FirstAt(K, key) <= FirstAt(K, k)

\* C8: each of the four peaks is a key of its grouping with the largest token
\* sum, and among the keys with that sum the one whose first valid event
\* comes earliest.
C8_PeaksAreFirstMaxima ==
    SummaryBuilt =>
        /\ IsPeak(HourOf, summary.peak_times.hour.hour, summary.peak_times.hour.tokens)
        /\ IsPeak(DateOf, summary.peak_times.day.date, summary.peak_times.day.tokens)
        /\ IsPeak(MonthOf, summary.peak_times.month.month, summary.peak_times.month.tokens)
        /\ IsPeak(WeekdayOf, summary.peak_times.weekday.day,
                  summary.peak_times.weekday.tokens)

C8_Witness ==
    /\ summary # None
    /\ \E k \in GroupKeys(DateOf) :
          /\ k # summary.peak_times.day.date
          /\ GroupSum(DateOf, k) = summary.peak_times.day.tokens
    /\ FirstAt(DateOf, summary.peak_times.day.date) > 1
    /\ summary.peak_times.hour.tokens > summary.peak_times.day.tokens

ModelKeys == {events[i].model : i \in ValidIdx(events)}
ModelIdx(m) == {i \in ValidIdx(events) : events[i].model = m}
UsageOf(m) == Cardinality(ModelIdx(m))
TokensOf(m) == TokensOver(events, ModelIdx(m))
FirstOf(m) == CHOOSE i \in ModelIdx(m) : \A j \in ModelIdx(m) : i <= j

IsTopFive(list, valueField, V(_)) ==
    /\ Len(list) = (IF Cardinality(ModelKeys) < 5 THEN Cardinality(ModelKeys) ELSE 5)
    /\ \A i \in 1..Len(list) :
          /\ list[i].model \in ModelKeys
          /\ list[i][valueField] = V(list[i].model)
    /\ \A i, j \in 1..Len(list) :
          i < j => /\ list[i].model # list[j].model
                   /\ V(list[i].model) >= V(list[j].model)
                   /\ V(list[i].model) = V(list[j].model) =>
                         FirstOf(list[i].model) < FirstOf(list[j].model)
    /\ \A m \in ModelKeys \ {list[i].model : i \in 1..Len(list)} :
          \A i \in 1..Len(list) :
             /\ V(m) <= V(list[i].model)
             /\ V(m) = V(list[i].model) => FirstOf(list[i].model) < FirstOf(m)

\* C9: by_usage and by_tokens hold min(5, number of models) models in
\* non-increasing order of usage count and of token sum, no omitted model
\* outranks a listed one, and models of equal value stand in the order of
\* their first valid event.
C9_TopModels ==
    SummaryBuilt =>
        /\ IsTopFive(summary.top_models.by_usage, "count", UsageOf)
        /\ IsTopFive(summary.top_models.by_tokens, "tokens", TokensOf)

C9_Witness ==
    /\ summary # None
    /\ Cardinality(ModelKeys) > 5
    /\ summary.top_models.by_tokens[1].model # events[1].model
    /\ summary.top_models.by_tokens[3].tokens = summary.top_models.by_tokens[4].tokens
    /\ summary.top_models.by_usage[1].count = 2
    /\ summary.top_models.by_usage[1].model # summary.top_models.by_tokens[1].model
    /\ summary.top_models.by_usage[1].model # events[1].model

\* the rows that are counted: they parse, are 'Included' and have tokens
CountedRows ==
    {i \in GoodIdx : file[i].Kind = "Included" /\ Meaning(IntOracle, file[i].TotalTokens) > 0}

ZeroCostCells == {NaNText, <<>>}

\* C10: a row whose Cost is 'NaN' or empty becomes an event of cost 0 when its
\* other cells parse; when it is 'Included' with positive tokens it counts in
\* totals.events and totals.tokens and adds 0 to totals.cost and to the cost
\* of its model.
C10_NaNCostIsZero ==
    /\ (fileStatus = "ok" /\ pc # "parse") =>
          /\ Len(events) = Cardinality(GoodIdx)
          /\ \A i \in GoodIdx :
                file[i].Cost \in ZeroCostCells =>
                   /\ events[Cardinality({j \in GoodIdx : j <= i})].cost = 0
                   /\ events[Cardinality({j \in GoodIdx : j <= i})].total_tokens
                         = Meaning(IntOracle, file[i].TotalTokens)
    /\ SummaryBuilt =>
          /\ summary.totals.events = Cardinality(CountedRows)
          /\ summary.totals.tokens
                = SumFn([i \in CountedRows |-> Meaning(IntOracle, file[i].TotalTokens)])
          /\ summary.totals.cost
                = SumFn([i \in {j \in CountedRows : file[j].Cost \notin ZeroCostCells} |->
                           Meaning(CostOracle, file[i].Cost)])
          /\ \A b \in 1..Len(summary.model_breakdown) :
                summary.model_breakdown[b].cost
                   = SumFn([i \in {j \in CountedRows :
                                     /\ file[j].Model = summary.model_breakdown[b].model
                                     /\ file[j].Cost \notin ZeroCostCells} |->
                              Meaning(CostOracle, file[i].Cost)])

C10_Witness ==
    /\ summary # None
    /\ \E i, j, k \in CountedRows :
          file[i].Cost = NaNText /\ file[j].Cost = <<>> /\ file[k].Cost \notin ZeroCostCells
    /\ summary.totals.events = 3
    /\ summary.totals.cost = 150

\* the numbers of a summary that format_number renders, each with its text
Formatted(s) ==
    {<<s.totals.tokens, s.totals.tokens_formatted>>,
     <<s.totals.output_tokens, s.totals.output_tokens_formatted>>,
     <<s.totals.input_tokens, s.totals.input_tokens_formatted>>,
     <<s.totals.cache_read, s.totals.cache_read_formatted>>,
     <<s.cache_stats.total_cache_read, s.cache_stats.total_cache_read_formatted>>,
     <<s.token_stats.max, s.token_stats.max_formatted>>,
     <<s.peak_times.hour.tokens, s.peak_times.hour.tokens_formatted>>,
     <<s.peak_times.day.tokens, s.peak_times.day.tokens_formatted>>,
     <<s.peak_times.month.tokens, s.peak_times.month.tokens_formatted>>,
     <<s.peak_times.weekday.tokens, s.peak_times.weekday.tokens_formatted>>}
    \cup {<<s.top_models.by_tokens[i].tokens, s.top_models.by_tokens[i].tokens_formatted>> :
            i \in 1..Len(s.top_models.by_tokens)}
    \cup {<<s.model_breakdown[i].total_tokens, s.model_breakdown[i].total_tokens_formatted>> :
            i \in 1..Len(s.model_breakdown)}

\* text is a decimal numeral without a needless leading zero
IsNumeral(text) == IsDigits(text) /\ (Len(text) = 1 \/ text[1] # "0")

\* text is X.XX and the suffix, X.XX being n / unit to the nearest hundredth
IsScaled(n, text, unit, suffix) ==
    /\ Len(text) >= 5
    /\ text[Len(text)] = suffix
    /\ text[Len(text) - 3] = "."
    /\ IsNumeral(SubSeq(text, 1, Len(text) - 4))
    /\ IsDigits(SubSeq(text, Len(text) - 2, Len(text) - 1))
    /\ LET h == 100 * DigitsValue(SubSeq(text, 1, Len(text) - 4))
                + DigitsValue(SubSeq(text, Len(text) - 2, Len(text) - 1))
       IN 2 * Abs(n - h * (unit \div 100)) <= unit \div 100

IsFormatOf(n, text) ==
    /\ n >= 1000000000 => IsScaled(n, text, 1000000000, "B")
    /\ (1000000 <= n /\ n < 1000000000) => IsScaled(n, text, 1000000, "M")
    /\ (1000 <= n /\ n < 1000000) => IsScaled(n, text, 1000, "K")
    /\ n < 1000 => (IsNumeral(text) /\ DigitsValue(text) = n)
    /\ n = 999 => text = <<"9", "9", "9">>
    /\ n = 1500 => text = <<"1", ".", "5", "0", "K">>
    /\ n = 2500000 => text = <<"2", ".", "5", "0", "M">>
    /\ n = 1200000000 => text = <<"1", ".", "2", "0", "B">>

\* C11: every non-negative integer n that a summary shows formatted reads
\* X.XXB, X.XXM or X.XXK (n over 10^9, 10^6 or 10^3 to two decimals) when n is
\* at least 10^9, 10^6 or 10^3, and as the plain integer below 10^3.
C11_FormatNumber ==
    SummaryBuilt => \A p \in Formatted(summary) : IsFormatOf(p[1], p[2])

C11_Witness ==
    /\ summary # None
    /\ summary.totals.output_tokens = 1000000
    /\ summary.totals.output_tokens_formatted = <<"1", ".", "0", "0", "M">>
    /\ summary.totals.tokens_formatted = <<"7">>

\* the input tokens of an event
InputOf(e) == e.input_cache + e.input_no_cache + e.cache_read

\* the events that count and have input tokens
SampleIdx == {i \in ValidIdx(events) : InputOf(events[i]) > 0}

\* the k-th of them in file order
SampleAt(k) == CHOOSE i \in SampleIdx : Cardinality({j \in SampleIdx : j <= i}) = k

\* C12: the cache-ratio list holds one sample, cache_read over a positive
\* total input, for each valid event whose total input is positive, in file
\* order, and none for the others; when no valid event has input tokens the
\* list is empty and cache_stats.efficiency_percent is exactly 0.
C12_CacheSamples ==
    SummaryBuilt =>
       /\ Len(stats.cache_efficiency) = Cardinality(SampleIdx)
       /\ \A k \in 1..Len(stats.cache_efficiency) :
             /\ stats.cache_efficiency[k][2] > 0
             /\ stats.cache_efficiency[k]
                  = <<events[SampleAt(k)].cache_read, InputOf(events[SampleAt(k)])>>
       /\ SampleIdx = {} =>
             /\ stats.cache_efficiency = <<>>
             /\ summary.cache_stats.efficiency_percent = 0

C12_Witness ==
    /\ summary # None
    /\ Cardinality(ValidIdx(events)) >= 2
    /\ \E i \in 1..Len(events) : events[i].kind = "Errored" /\ InputOf(events[i]) > 0
    /\ SampleIdx = {}
    /\ stats.cache_efficiency = <<>>
    /\ summary.cache_stats.efficiency_percent = 0

\* analyze_usage has just returned
Analyzed == pc = "summarize"

\* sum(d.values())
SumValues(d) == SumSeq([i \in 1..Len(d) |-> d[i][2]])

\* C13: after analysis the per-model token sums and each of the hourly, daily,
\* monthly and weekday token sums add up to total_tokens; the per-model event
\* counts add up to total_events, which is the length of token_distribution;
\* cache_efficiency has at most total_events samples.
C13_Conservation ==
    Analyzed =>
       /\ SumValues(stats.model_tokens) = stats.total_tokens
       /\ SumValues(stats.hourly_usage) = stats.total_tokens
       /\ SumValues(stats.daily_usage) = stats.total_tokens
       /\ SumValues(stats.monthly_usage) = stats.total_tokens
       /\ SumValues(stats.weekday_usage) = stats.total_tokens
       /\ SumValues(stats.model_usage) = stats.total_events
       /\ Len(stats.token_distribution) = stats.total_events
       /\ Len(stats.cache_efficiency) <= stats.total_events

C13_Witness ==
    /\ Analyzed
    /\ stats.total_events >= 2
    /\ Len(events) > stats.total_events
    /\ Len(stats.daily_usage) > Len(stats.hourly_usage)
    /\ Len(stats.monthly_usage) > Len(stats.model_tokens)

\* how many entries the two lists are compared on
Compared == IF Cardinality(ModelKeys) < TopN THEN Cardinality(ModelKeys) ELSE TopN

\* C14: top_models.by_tokens has min(5, number of models) entries, and its
\* i-th entry and the i-th entry of model_breakdown name the same model with
\* the same token sum, also when models tie on their token sums.
C14_TopModelsMatchBreakdown ==
    SummaryBuilt =>
       /\ Len(summary.top_models.by_tokens) = Compared
       /\ Len(summary.model_breakdown) = Cardinality(ModelKeys)
       /\ \A i \in 1..Compared :
             /\ summary.top_models.by_tokens[i].model = summary.model_breakdown[i].model
             /\ summary.top_models.by_tokens[i].tokens
                  = summary.model_breakdown[i].total_tokens

C14_Witness ==
    /\ summary # None
    /\ Len(summary.model_breakdown) > TopN
    /\ summary.top_models.by_tokens[1].tokens > summary.top_models.by_tokens[2].tokens
    /\ summary.top_models.by_tokens[2].tokens > summary.top_models.by_tokens[3].tokens
    /\ summary.top_models.by_tokens[4].tokens = summary.top_models.by_tokens[5].tokens
    /\ summary.top_models.by_tokens[5].tokens = summary.model_breakdown[6].total_tokens
    /\ \A i \in 1..TopN :
          summary.top_models.by_tokens[i].model = summary.model_breakdown[i].model
====
